---- MODULE Spec2Model ----
(***************************************************************************)
(* A model of src/app.py (DocuMagic / DocuMind AI): the SQLite-backed user *)
(* and history stores, the cached model resources, the document pipeline   *)
(* process_document and the Streamlit page function main.                  *)
(*                                                                         *)
(* Strings the code inspects character by character (user names, which are *)
(* interpolated into a query text) are sequences of one-character strings. *)
(* OCR text is run-length encoded: a sequence of runs, each a number of    *)
(* whitespace or of non-whitespace characters; str.strip, slicing and len  *)
(* are computed on the runs.                                               *)
(***************************************************************************)
EXTENDS Integers, Sequences, FiniteSets, TLC

VARIABLES
    users,      \* table users: sequence of rows [username, password]
    history,    \* table history: sequence of rows, in insertion order
    nextId,     \* the AUTOINCREMENT sequence of history.id
    loaded,     \* which of the four artifacts load_resources could load
    models,     \* (xgb_model, tfidf_vectorizer, label_encoder, summarizer)
    session,    \* st.session_state of each browser session
    last,       \* the last handler that ran: its inputs and what it returned
    okRuns,     \* log: one entry per pipeline run that returned a category
    authed,     \* log: per session, the user name of its last accepted login
    creds,      \* log: the password each committed users row was created with
    conn,       \* add_user in progress, per session (interleaved model)
    writeLock,  \* the session whose connection holds SQLite's write lock
    regLog      \* log: how each interleaved add_user call ended

vars == <<users, history, nextId, loaded, models, session, last, okRuns,
          authed, creds, conn, writeLock, regLog>>

----------------------------------------------------------------------------
(* Bounds of the model *)

\* history rows written before the model stops processing documents
MaxHistory == 2
\* runs of whitespace / non-whitespace in an OCR text
MaxRuns == 2
\* add_user calls started in the interleaved model
MaxCalls == 3

Sessions == {1, 2}

None == "None"

----------------------------------------------------------------------------
(* Sequences *)

RECURSIVE SumLens(_)
SumLens(rs) == IF rs = <<>> THEN 0 ELSE Head(rs).n + SumLens(Tail(rs))

Last(s) == s[Len(s)]

Front(s) == SubSeq(s, 1, Len(s) - 1)

Range(s) == {s[i] : i \in DOMAIN s}

----------------------------------------------------------------------------
(* Python str operations on run-length encoded text *)

\* len(text)
PyLen(text) == SumLens(text)

\* text.strip(): leading and trailing whitespace removed
RECURSIVE LStrip(_)
LStrip(text) ==
    IF text = <<>> THEN <<>>
    ELSE IF Head(text).ws THEN LStrip(Tail(text)) ELSE text

RECURSIVE RStrip(_)
RStrip(text) ==
    IF text = <<>> THEN <<>>
    ELSE IF Last(text).ws THEN RStrip(Front(text)) ELSE text

Strip(text) == RStrip(LStrip(text))

\* text[:k]
RECURSIVE Slice(_, _)
Slice(text, k) ==
    IF text = <<>> \/ k <= 0 THEN <<>>
    ELSE IF Head(text).n >= k THEN <<[ws |-> Head(text).ws, n |-> k]>>
    ELSE <<Head(text)>> \o Slice(Tail(text), k - Head(text).n)

\* truth value of a str: non-empty
Truthy(text) == text # <<>>

----------------------------------------------------------------------------
(* Inputs *)

\* user names typed into the "Username" field, character by character
ALICE == <<"a", "l", "i", "c", "e">>
OBRIEN == <<"o", "'", "b">>
MALLORY == <<"x", "'", " ", "O", "R", " ", "'", "x", "'", "=", "'", "x">>

Usernames == {ALICE, OBRIEN, MALLORY}

Passwords == {"pw1", "pw2"}

Filenames == {"scan.png"}

\* datetime.now().strftime("%Y-%m-%d %H:%M:%S"): the clock has second
\* resolution, and the runs of the model fall within one second
Timestamps == {"2026-01-01 10:00:00"}

\* lengths of the runs of an OCR text, around the two thresholds of the code
RunLens == {5, 45, 3001}

RECURSIVE TextsOf(_)
TextsOf(k) ==
    IF k = 0 THEN {<<>>}
    ELSE LET shorter == TextsOf(k - 1)
             longest == {t \in shorter : Len(t) = k - 1}
         IN  shorter \cup
             {Append(t, [ws |-> w, n |-> n]) :
                 t \in longest, w \in BOOLEAN, n \in RunLens}

\* run-length encodings are normal: neighbouring runs differ in kind
Normal(t) == \A i \in 1..(Len(t) - 1) : t[i].ws # t[i + 1].ws

Texts == {t \in TextsOf(MaxRuns) : Normal(t)}

TesseractError == "TesseractError"

\* an uploaded image: its file name, and what pytesseract makes of it (a
\* text, or an exception of the OCR engine)
Documents ==
    [name : Filenames, exc : {None}, text : Texts]
    \cup [name : Filenames, exc : {TesseractError}, text : {<<>>}]

Artifacts == {"model", "vectorizer", "encoder", "summarizer"}

----------------------------------------------------------------------------
(* 2. Database management *)

init_db == [users |-> <<>>, history |-> <<>>, nextId |-> 1]

\* hashlib.sha256(str.encode(password)).hexdigest(), on the passwords of
\* the model: the digests are the real ones
make_hashes(password) ==
    CASE password = "pw1" ->
           "c592df4a86933b92addc9842402ddf198c638ea9be58916ee6e3734e1e3152f8"
      [] password = "pw2" ->
           "93915a0a4bf8f634cb1856494dd4304472ad46b9827f541f76b6761c49cc55b0"

check_hashes(password, hashed_text) == make_hashes(password) = hashed_text

\* the table created without PRIMARY KEY: no INSERT is refused
PrimaryKeyViolated_NoKey(tbl, username) == FALSE

\* username TEXT PRIMARY KEY: an INSERT of a present key is refused
PrimaryKeyViolated(tbl, username) ==
    \E i \in DOMAIN tbl : tbl[i].username = username

\* add_user, run alone: the row is inserted and committed, or the INSERT
\* raises sqlite3.IntegrityError, which the handler turns into False
add_user(tbl, username, password) ==
    IF PrimaryKeyViolated(tbl, username)
    THEN [success |-> FALSE, users |-> tbl]
    ELSE [success |-> TRUE,
          users |-> Append(tbl, [username |-> username,
                                 password |-> make_hashes(password)])]

\* the query without its password condition
login_user_NoPassword(tbl, username, password) ==
    SelectSeq(tbl, LAMBDA r : r.username = username)

\* SELECT * FROM users WHERE username = ? AND password = ? (bound values)
login_user(tbl, username, password) ==
    SelectSeq(tbl, LAMBDA r : r.username = username
                              /\ r.password = make_hashes(password))

\* INSERT INTO history (...) VALUES (?,?,?,?,?): the id is the next value
\* of the AUTOINCREMENT sequence
save_history(tbl, id, timestamp, username, filename, category, summary) ==
    Append(tbl, [id |-> id, username |-> username, timestamp |-> timestamp,
                 filename |-> filename, category |-> category,
                 summary |-> summary])

----------------------------------------------------------------------------
(* The query of get_user_history, whose text is built by an f-string:      *)
(*   SELECT timestamp, filename, category, summary FROM history            *)
(*   WHERE username = '{username}' ORDER BY id DESC                        *)
(* SQLite reads the text after WHERE as it stands after the interpolation. *)
(* The reader below covers what the user names of the model can produce:   *)
(* string literals ('' inside one is a quote), words, =, and comparisons   *)
(* joined by OR. Any other text is a syntax error, as it is in SQLite.     *)

WherePrefix ==
    <<"u", "s", "e", "r", "n", "a", "m", "e", " ", "=", " ", "'">>

WhereSuffix ==
    <<"'", " ", "O", "R", "D", "E", "R", " ", "B", "Y", " ", "i", "d", " ",
      "D", "E", "S", "C">>

OrderByTokens ==
    << [t |-> "word", v |-> <<"O", "R", "D", "E", "R">>],
       [t |-> "word", v |-> <<"B", "Y">>],
       [t |-> "word", v |-> <<"i", "d">>],
       [t |-> "word", v |-> <<"D", "E", "S", "C">>] >>

\* the text of the query from WHERE on, for a user name
QueryText(username) == WherePrefix \o username \o WhereSuffix

IsWordChar(c) == c \notin {"'", " ", "="}

\* the index of the quote that closes the literal whose body starts at i,
\* or 0 when the literal is not closed
RECURSIVE StrEnd(_, _)
StrEnd(cs, i) ==
    IF i > Len(cs) THEN 0
    ELSE IF cs[i] = "'"
         THEN IF i + 1 <= Len(cs) /\ cs[i + 1] = "'"
              THEN StrEnd(cs, i + 2)
              ELSE i
         ELSE StrEnd(cs, i + 1)

\* the body of a literal, '' read as one quote
RECURSIVE Unescape(_)
Unescape(cs) ==
    IF cs = <<>> THEN <<>>
    ELSE IF Head(cs) = "'" THEN <<"'">> \o Unescape(Tail(Tail(cs)))
    ELSE <<Head(cs)>> \o Unescape(Tail(cs))

\* the index of the last character of the word that starts at i
RECURSIVE WordEnd(_, _)
WordEnd(cs, i) ==
    IF i + 1 <= Len(cs) /\ IsWordChar(cs[i + 1])
    THEN WordEnd(cs, i + 1)
    ELSE i

\* the tokens of cs from i on; an unclosed literal gives the token "err"
RECURSIVE Lex(_, _)
Lex(cs, i) ==
    IF i > Len(cs) THEN <<>>
    ELSE IF cs[i] = " " THEN Lex(cs, i + 1)
    ELSE IF cs[i] = "=" THEN <<[t |-> "eq", v |-> <<>>]>> \o Lex(cs, i + 1)
    ELSE IF cs[i] = "'"
         THEN LET e == StrEnd(cs, i + 1)
              IN  IF e = 0
                  THEN <<[t |-> "err", v |-> <<>>]>>
                  ELSE <<[t |-> "str",
                          v |-> Unescape(SubSeq(cs, i + 1, e - 1))]>>
                       \o Lex(cs, e + 1)
         ELSE LET e == WordEnd(cs, i)
              IN  <<[t |-> "word", v |-> SubSeq(cs, i, e)]>> \o Lex(cs, e + 1)

IsOr(tok) == tok.t = "word" /\ tok.v = <<"O", "R">>

\* the tokens cut at every OR
RECURSIVE SplitOr(_)
SplitOr(toks) ==
    IF \E i \in DOMAIN toks : IsOr(toks[i])
    THEN LET i == CHOOSE j \in DOMAIN toks :
                      IsOr(toks[j]) /\ \A k \in 1..(j - 1) : ~IsOr(toks[k])
         IN  <<SubSeq(toks, 1, i - 1)>>
             \o SplitOr(SubSeq(toks, i + 1, Len(toks)))
    ELSE <<toks>>

Columns == {<<"u", "s", "e", "r", "n", "a", "m", "e">>}

IsOperand(tok) == tok.t = "str" \/ (tok.t = "word" /\ tok.v \in Columns)

\* a comparison: operand = operand
IsComparison(toks) ==
    /\ Len(toks) = 3
    /\ IsOperand(toks[1])
    /\ toks[2].t = "eq"
    /\ IsOperand(toks[3])

OperandValue(tok, row) == IF tok.t = "str" THEN tok.v ELSE row.username

\* the tokens of the WHERE clause, or <<"err">> tokens when the query text
\* does not end in the ORDER BY clause of the template
WhereTokens(username) ==
    LET toks == Lex(QueryText(username), 1)
        n == Len(toks)
    IN  IF (\E i \in DOMAIN toks : toks[i].t = "err") \/ n < 4
           \/ SubSeq(toks, n - 3, n) # OrderByTokens
        THEN <<[t |-> "err", v |-> <<>>]>>
        ELSE SubSeq(toks, 1, n - 4)

\* the query is one SQLite can run
QueryParses(username) ==
    \A part \in Range(SplitOr(WhereTokens(username))) : IsComparison(part)

\* the WHERE clause holds of a row
WhereHolds(username, row) ==
    \E part \in Range(SplitOr(WhereTokens(username))) :
        OperandValue(part[1], row) = OperandValue(part[3], row)

\* ORDER BY id DESC
RECURSIVE OrderByIdDesc(_)
OrderByIdDesc(rows) ==
    IF rows = {} THEN <<>>
    ELSE LET top == CHOOSE r \in rows : \A q \in rows : q.id <= r.id
         IN  <<top>> \o OrderByIdDesc(rows \ {top})

\* the columns the query selects
Selected(row) ==
    [timestamp |-> row.timestamp, filename |-> row.filename,
     category |-> row.category, summary |-> row.summary]

\* get_user_history: the data frame (a sequence of rows), or the exception
\* pandas raises when SQLite rejects the query
get_user_history(tbl, username) ==
    IF ~QueryParses(username)
    THEN [raised |-> "DatabaseError", df |-> <<>>]
    ELSE LET hit == {r \in Range(tbl) : WhereHolds(username, r)}
             rows == OrderByIdDesc(hit)
         IN  [raised |-> None,
              df |-> [i \in DOMAIN rows |-> Selected(rows[i])]]

----------------------------------------------------------------------------
(* 3. Model loading *)

\* each load guarded on its own: None only for the artifact that failed
load_resources_Partial(ok) ==
    [xgb_model |-> IF ok["model"] THEN "xgb_model" ELSE None,
     tfidf_vectorizer |-> IF ok["vectorizer"] THEN "tfidf_vectorizer"
                          ELSE None,
     label_encoder |-> IF ok["encoder"] THEN "label_encoder" ELSE None,
     summarizer |-> IF ok["summarizer"] THEN "summarizer" ELSE None]

\* load_resources: the four artifacts, or four None when any load raised
load_resources(ok) ==
    IF \A a \in Artifacts : ok[a]
    THEN [xgb_model |-> "xgb_model", tfidf_vectorizer |-> "tfidf_vectorizer",
          label_encoder |-> "label_encoder", summarizer |-> "summarizer"]
    ELSE [xgb_model |-> None, tfidf_vectorizer |-> None,
          label_encoder |-> None, summarizer |-> None]

----------------------------------------------------------------------------
(* 4. Core logic *)

\* the slice bound and the length threshold of process_document
TruncateAt == 3000
MinSummarizeLen == 50

\* the classes of the label encoder
Labels == <<"invoice", "letter">>

\* xgb_model.predict(tfidf_vectorizer.transform([text]))[0]: the artifacts
\* are opaque; the model takes a fixed function of the text for them
Predict(text) == PyLen(text) % Len(Labels)

\* label_encoder.inverse_transform([pred_idx])[0]
InverseTransform(pred_idx) == Labels[pred_idx + 1]

\* summarizer(input_text, ...)[0]['summary_text']
ModelSummary == "abstractive summary"

TooShort == "Text too short to summarize."

\* the str "No text found" in the run-length encoding
NoTextFound ==
    << [ws |-> FALSE, n |-> 2], [ws |-> TRUE, n |-> 1],
       [ws |-> FALSE, n |-> 4], [ws |-> TRUE, n |-> 1],
       [ws |-> FALSE, n |-> 5] >>

Call(stage, arg) == [stage |-> stage, arg |-> arg]

\* if not text: the test without the strip
NoText_NoStrip(text) == ~Truthy(text)

\* if not text.strip()
NoText(text) == ~Truthy(Strip(text))

\* input_text = text[:3000]
InputText(text) == Slice(text, TruncateAt)

\* the comparison turned round
ShortInput_Reversed(input_text) == PyLen(input_text) > MinSummarizeLen

\* if len(input_text) < 50
ShortInput(input_text) == PyLen(input_text) < MinSummarizeLen

\* B. Classification: the three calls, in the order of the code
ClassifyCalls(text) ==
    << Call("vectorize", text), Call("predict", text),
       Call("decode", <<>>) >>

\* C. Summarization: the summary, and the call of the model if it is made
Summarization(text) ==
    LET input_text == InputText(text)
    IN  IF ShortInput(input_text)
        THEN [summary |-> TooShort, calls |-> <<>>]
        ELSE [summary |-> ModelSummary,
              calls |-> <<Call("summarize", input_text)>>]

\* process_document returning the truncated input_text for the text
process_document_ReturnsInput(image) ==
    IF image.exc # None
    THEN [category |-> None, summary |-> None, raw_text |-> <<>>,
          raised |-> image.exc, calls |-> <<Call("ocr", <<>>)>>]
    ELSE LET text == image.text
         IN  IF NoText(text)
             THEN [category |-> None, summary |-> None,
                   raw_text |-> NoTextFound, raised |-> None,
                   calls |-> <<Call("ocr", <<>>)>>]
             ELSE LET category == InverseTransform(Predict(text))
                      sum == Summarization(text)
                  IN  [category |-> category, summary |-> sum.summary,
                       raw_text |-> InputText(text), raised |-> None,
                       calls |-> <<Call("ocr", <<>>)>> \o ClassifyCalls(text)
                                 \o sum.calls]

\* process_document(image): what it returns (category, summary, text), the
\* exception that leaves it, and the calls it made, in order
process_document(image) ==
    IF image.exc # None
    THEN [category |-> None, summary |-> None, raw_text |-> <<>>,
          raised |-> image.exc, calls |-> <<Call("ocr", <<>>)>>]
    ELSE LET text == image.text
         IN  IF NoText(text)
             THEN [category |-> None, summary |-> None,
                   raw_text |-> NoTextFound, raised |-> None,
                   calls |-> <<Call("ocr", <<>>)>>]
             ELSE LET category == InverseTransform(Predict(text))
                      sum == Summarization(text)
                  IN  [category |-> category, summary |-> sum.summary,
                       raw_text |-> text, raised |-> None,
                       calls |-> <<Call("ocr", <<>>)>> \o ClassifyCalls(text)
                                 \o sum.calls]

----------------------------------------------------------------------------
(* 5. Main UI: one action per button of the page, each the whole script    *)
(* run that the press triggers                                             *)

NoImage == [name |-> "", exc |-> None, text |-> <<>>]

NoOutcome ==
    [category |-> None, summary |-> None, raw_text |-> <<>>,
     raised |-> None, calls |-> <<>>]

\* what the last script run did: the button, its inputs, and what the
\* calls returned (success: add_user, result: login_user, out:
\* process_document), the exception that ended the run, the message shown
NoLast ==
    [op |-> "none", s |-> 0, username |-> <<>>, password |-> "",
     image |-> NoImage, success |-> FALSE, result |-> <<>>,
     out |-> NoOutcome, ran |-> FALSE, raised |-> None, ui |-> "",
     saved |-> FALSE]

\* the login accepted whatever the query returned
LoginAccepted_Always(result) == TRUE

\* if result:
LoginAccepted(result) == result # <<>>

\* if xgb_model is None:
ModelsMissing(m) == m.xgb_model = None

\* if category:
CategoryTruthy(category) == category # None /\ category # ""

\* the dashboard's sidebar calls get_user_history before the main content
\* is drawn: when it raises, the run ends there
SidebarRaises(username) == get_user_history(history, username).raised # None

DbUnchanged == UNCHANGED <<users, history, nextId>>
RaceUnchanged == UNCHANGED <<conn, writeLock, regLog>>

\* no add_user call in progress
Idle == [pc |-> "idle", username |-> <<>>, password |-> ""]

\* "Login" pressed on the login screen
Login(s, username, password) ==
    /\ ~session[s].logged_in
    /\ LET result == login_user(users, username, password)
       IN  /\ session' =
                 IF LoginAccepted(result)
                 THEN [session EXCEPT ![s] = [logged_in |-> TRUE,
                                              username |-> username]]
                 ELSE session
           /\ authed' = IF login_user(users, username, password) # <<>>
                        THEN [authed EXCEPT ![s] = username]
                        ELSE authed
           /\ last' = [NoLast EXCEPT
                 !.op = "login", !.s = s, !.username = username,
                 !.password = password, !.result = result,
                 !.raised = IF LoginAccepted(result)
                               /\ SidebarRaises(username)
                            THEN "DatabaseError" ELSE None,
                 !.ui = IF LoginAccepted(result) THEN ""
                        ELSE "Incorrect Username or Password"]
    /\ DbUnchanged
    /\ RaceUnchanged
    /\ UNCHANGED <<loaded, models, okRuns, creds>>

\* "Create Account" pressed on the login screen
SignUp(s, username, password) ==
    /\ ~session[s].logged_in
    /\ LET r == add_user(users, username, password)
       IN  /\ users' = r.users
           /\ last' = [NoLast EXCEPT
                 !.op = "add_user", !.s = s, !.username = username,
                 !.password = password, !.success = r.success,
                 !.ui = IF r.success THEN "Account Created! Please Login."
                        ELSE "Username already taken."]
           /\ creds' = IF Len(r.users) > Len(users)
                       THEN Append(creds, password) ELSE creds
    /\ RaceUnchanged
    /\ UNCHANGED <<history, nextId, loaded, models, session, okRuns, authed>>

\* "Log Out" pressed in the sidebar
LogOut(s) ==
    /\ session[s].logged_in
    /\ session' = [session EXCEPT ![s].logged_in = FALSE]
    /\ last' = [NoLast EXCEPT !.op = "logout", !.s = s]
    /\ DbUnchanged
    /\ RaceUnchanged
    /\ UNCHANGED <<loaded, models, okRuns, authed, creds>>

\* "Process Document Now" pressed, with an uploaded image on the page
Process(s, image, timestamp) ==
    /\ session[s].logged_in
    /\ ~SidebarRaises(session[s].username)
    /\ Len(history) < MaxHistory
    /\ LET username == session[s].username
           run == ~ModelsMissing(models)
           out == IF run THEN process_document(image) ELSE NoOutcome
           save == run /\ out.raised = None /\ CategoryTruthy(out.category)
       IN  /\ history' =
                 IF save
                 THEN save_history(history, nextId, timestamp, username,
                                   image.name, out.category, out.summary)
                 ELSE history
           /\ nextId' = IF save THEN nextId + 1 ELSE nextId
           /\ okRuns' =
                 IF run /\ out.raised = None /\ out.category # None
                 THEN Append(okRuns,
                        [username |-> username, timestamp |-> timestamp,
                         filename |-> image.name, category |-> out.category,
                         summary |-> out.summary])
                 ELSE okRuns
           /\ last' = [NoLast EXCEPT
                 !.op = "process", !.s = s, !.username = username,
                 !.image = image, !.out = out, !.ran = run,
                 !.raised = out.raised, !.saved = save,
                 !.ui = IF ~run THEN "Models failed to load."
                        ELSE IF out.raised # None THEN ""
                        ELSE IF save
                        THEN "Analysis Complete & Saved to History!"
                        ELSE "Could not read text from image."]
    /\ RaceUnchanged
    /\ UNCHANGED <<users, loaded, models, session, authed, creds>>

----------------------------------------------------------------------------
(* The page, one script run at a time *)

Init ==
    /\ users = init_db.users
    /\ history = init_db.history
    /\ nextId = init_db.nextId
    /\ loaded \in [Artifacts -> BOOLEAN]
    /\ models = load_resources(loaded)
    /\ session = [s \in Sessions |-> [logged_in |-> FALSE, username |-> <<>>]]
    /\ authed = [s \in Sessions |-> <<>>]
    /\ last = NoLast
    /\ okRuns = <<>>
    /\ creds = <<>>
    /\ conn = [s \in Sessions |-> Idle]
    /\ writeLock = 0
    /\ regLog = <<>>

\* the inputs of the page model: two accounts, one password each, and one
\* image of each kind (no text, a short text, a long text, an OCR failure)
PageUsernames == {ALICE, MALLORY}
PagePasswords == {"pw1"}
PageDocuments ==
    {d \in Documents :
        \/ d.exc # None
        \/ d.exc = None
           /\ d.text \in {<<[ws |-> TRUE, n |-> 5]>>,
                          <<[ws |-> FALSE, n |-> 45]>>,
                          <<[ws |-> FALSE, n |-> 3001]>>}}

Next ==
    \/ \E s \in Sessions, u \in PageUsernames, p \in PagePasswords :
          Login(s, u, p)
    \/ \E s \in Sessions, u \in PageUsernames, p \in PagePasswords :
          SignUp(s, u, p)
    \/ \E s \in Sessions : LogOut(s)
    \/ \E s \in Sessions, d \in PageDocuments, t \in Timestamps :
          Process(s, d, t)

Spec == Init /\ [][Next]_vars

----------------------------------------------------------------------------
(* The user store alone: sign-up, login and log-out with every user name   *)
(* and password of the model                                               *)

NextAuth ==
    \/ \E s \in Sessions, u \in Usernames, p \in Passwords : Login(s, u, p)
    \/ \E s \in Sessions, u \in Usernames, p \in Passwords : SignUp(s, u, p)
    \/ \E s \in Sessions : LogOut(s)

InitAuth == Init /\ \A a \in Artifacts : loaded[a]

SpecAuth == InitAuth /\ [][NextAuth]_vars

----------------------------------------------------------------------------
(* The pipeline alone: a session that has signed up and logged in presses  *)
(* "Process Document Now" on every image of the model                      *)

InitPipe ==
    /\ users = add_user(init_db.users, ALICE, "pw1").users
    /\ history = init_db.history
    /\ nextId = init_db.nextId
    /\ loaded \in [Artifacts -> BOOLEAN]
    /\ models = load_resources(loaded)
    /\ session = [s \in Sessions |->
                    IF s = 1 THEN [logged_in |-> TRUE, username |-> ALICE]
                    ELSE [logged_in |-> FALSE, username |-> <<>>]]
    /\ authed = [s \in Sessions |-> IF s = 1 THEN ALICE ELSE <<>>]
    /\ last = NoLast
    /\ okRuns = <<>>
    /\ creds = <<"pw1">>
    /\ conn = [s \in Sessions |-> Idle]
    /\ writeLock = 0
    /\ regLog = <<>>

NextPipe ==
    \E s \in Sessions, d \in Documents, t \in Timestamps : Process(s, d, t)

SpecPipe == InitPipe /\ [][NextPipe]_vars

----------------------------------------------------------------------------
(* add_user called from several sessions at once: each call is a sequence  *)
(* of steps on its own connection, and the steps of different sessions     *)
(* interleave. SQLite lets one connection at a time write: the INSERT      *)
(* takes the write lock and keeps it until the commit, or until the        *)
(* connection is closed.                                                   *)

\* add_user calls started so far
CallsStarted ==
    Len(regLog) + Cardinality({s \in Sessions : conn[s].pc # "idle"})

\* no write lock: every INSERT proceeds at once
WriteLockFree_NoLock(lock) == TRUE

\* the INSERT can take SQLite's write lock
WriteLockFree(lock) == lock = 0

PageUnchanged ==
    UNCHANGED <<history, nextId, loaded, models, session, last, okRuns,
                authed>>

\* conn = sqlite3.connect(DB_FILE); c = conn.cursor()
RegConnect(s, username, password) ==
    /\ conn[s].pc = "idle"
    /\ CallsStarted < MaxCalls
    /\ conn' = [conn EXCEPT ![s] = [pc |-> "connected",
                                    username |-> username,
                                    password |-> password]]
    /\ UNCHANGED <<users, creds, writeLock, regLog>>
    /\ PageUnchanged

\* c.execute('INSERT ...'): under the write lock, the key is checked and the
\* row is written, not yet committed, or sqlite3.IntegrityError is raised
\* and caught (success = False)
RegInsert(s) ==
    /\ conn[s].pc = "connected"
    /\ WriteLockFree(writeLock)
    /\ writeLock' = s
    /\ conn' = [conn EXCEPT ![s].pc =
                   IF PrimaryKeyViolated(users, conn[s].username)
                   THEN "refused" ELSE "inserted"]
    /\ UNCHANGED <<users, creds, regLog>>
    /\ PageUnchanged

\* c.execute('INSERT ...') while another connection holds the write lock,
\* until the busy timeout: sqlite3.OperationalError, which add_user does
\* not catch
RegBusy(s) ==
    /\ conn[s].pc = "connected"
    /\ ~WriteLockFree(writeLock)
    /\ conn' = [conn EXCEPT ![s] = Idle]
    /\ regLog' = Append(regLog, [s |-> s, username |-> conn[s].username,
                                 outcome |-> "OperationalError"])
    /\ UNCHANGED <<users, creds, writeLock>>
    /\ PageUnchanged

\* conn.commit(); success = True
RegCommit(s) ==
    /\ conn[s].pc = "inserted"
    /\ users' = Append(users, [username |-> conn[s].username,
                               password |-> make_hashes(conn[s].password)])
    /\ writeLock' = IF writeLock = s THEN 0 ELSE writeLock
    /\ creds' = Append(creds, conn[s].password)
    /\ conn' = [conn EXCEPT ![s].pc = "committed"]
    /\ UNCHANGED regLog
    /\ PageUnchanged

\* conn.close(); return success
RegReturn(s) ==
    /\ conn[s].pc \in {"committed", "refused"}
    /\ writeLock' = IF writeLock = s THEN 0 ELSE writeLock
    /\ regLog' = Append(regLog,
                     [s |-> s, username |-> conn[s].username,
                      outcome |-> IF conn[s].pc = "committed"
                                  THEN "True" ELSE "False"])
    /\ conn' = [conn EXCEPT ![s] = Idle]
    /\ UNCHANGED <<users, creds>>
    /\ PageUnchanged

NextRace ==
    \/ \E s \in Sessions, u \in PageUsernames, p \in Passwords :
          RegConnect(s, u, p)
    \/ \E s \in Sessions : RegInsert(s)
    \/ \E s \in Sessions : RegBusy(s)
    \/ \E s \in Sessions : RegCommit(s)
    \/ \E s \in Sessions : RegReturn(s)

SpecRace == InitAuth /\ [][NextRace]_vars

----------------------------------------------------------------------------
(* Properties *)

AllWhitespace(text) == \A i \in DOMAIN text : text[i].ws

HasVisibleChar(text) == \E i \in DOMAIN text : ~text[i].ws

Registered(tbl, username) == \E i \in DOMAIN tbl : tbl[i].username = username

RowsOf(tbl, username) == {i \in DOMAIN tbl : tbl[i].username = username}

Reverse(seq) == [i \in 1..Len(seq) |-> seq[Len(seq) + 1 - i]]

\* the last script run was a press of "Process Document Now" that reached
\* process_document
PipelineRan == last.op = "process" /\ last.ran

StageRank(stage) ==
    CASE stage = "ocr" -> 1
      [] stage = "vectorize" -> 2
      [] stage = "predict" -> 3
      [] stage = "decode" -> 4
      [] stage = "summarize" -> 5

\* C1: a pipeline run on an image whose OCR text is empty or all whitespace
\* returns (None, None, "No text found"), raises nothing, calls neither the
\* vectorizer, the classifier, the label decoder nor the summarizer, and
\* writes no history row.
C1_EmptyTextFails ==
    (PipelineRan /\ last.image.exc = None /\ AllWhitespace(last.image.text))
    => /\ last.raised = None
       /\ last.out.category = None
       /\ last.out.summary = None
       /\ last.out.raw_text = NoTextFound
       /\ \A i \in DOMAIN last.out.calls : last.out.calls[i].stage = "ocr"
       /\ ~last.saved
       /\ last.ui = "Could not read text from image."

C1_Witness ==
    /\ PipelineRan
    /\ last.image.text = <<[ws |-> TRUE, n |-> 5]>>
    /\ last.out.raw_text = NoTextFound

\* C2, as stated: whenever the summarization step is reached with a text
\* whose first 3000 characters, trimmed, are fewer than 50 characters, the
\* summary is the sentinel and the summarization model is not called.
C2_TrimmedShortGivesSentinel ==
    (/\ PipelineRan
     /\ last.out.raised = None
     /\ last.out.category # None
     /\ PyLen(Strip(Slice(last.image.text, TruncateAt))) < MinSummarizeLen)
    => /\ last.out.summary = TooShort
       /\ \A i \in DOMAIN last.out.calls :
             last.out.calls[i].stage # "summarize"

\* C2, amended: whenever the summarization step is reached with a text
\* whose first 3000 characters, whitespace included, are fewer than 50
\* characters, the summary is the sentinel and the summarization model is
\* not called.
C2_ShortGivesSentinel ==
    (/\ PipelineRan
     /\ last.out.raised = None
     /\ last.out.category # None
     /\ PyLen(Slice(last.image.text, TruncateAt)) < MinSummarizeLen)
    => /\ last.out.summary = TooShort
       /\ \A i \in DOMAIN last.out.calls :
             last.out.calls[i].stage # "summarize"

C2_Witness ==
    /\ PipelineRan
    /\ last.image.text = <<[ws |-> FALSE, n |-> 45]>>
    /\ last.out.summary = TooShort
    /\ last.saved

\* C3: a registration returns True exactly when the user name has no row
\* yet, and then appends one row holding the hash of its password; a
\* registration of a user name that has a row returns False and leaves the
\* table as it is; no step changes or removes a row; the table never holds
\* two rows for one user name.
C3_RegisterStep ==
    /\ \A i \in DOMAIN users : i \in DOMAIN users' /\ users'[i] = users[i]
    /\ last'.op = "add_user" =>
          /\ last'.success = ~Registered(users, last'.username)
          /\ ~last'.success => users' = users
          /\ last'.success =>
                users' = Append(users,
                            [username |-> last'.username,
                             password |-> make_hashes(last'.password)])

C3_RegisterOnce ==
    /\ [](\A u \in Usernames : Cardinality(RowsOf(users, u)) <= 1)
    /\ [][C3_RegisterStep]_vars

C3_Witness ==
    /\ last.op = "add_user"
    /\ ~last.success
    /\ last.ui = "Username already taken."
    /\ \E i \in DOMAIN users :
          /\ users[i].username = last.username
          /\ creds[i] # last.password
          /\ users[i].password = make_hashes(creds[i])

\* C4: a login with a user name that has no row, and a login with a user
\* name that has a row created with another password, both get the empty
\* result, the same message, and leave the session logged out.
C4_LoginRejected ==
    (/\ last.op = "login"
     /\ \/ ~Registered(users, last.username)
        \/ \E i \in DOMAIN users : /\ users[i].username = last.username
                                   /\ creds[i] # last.password)
    => /\ last.result = <<>>
       /\ last.ui = "Incorrect Username or Password"
       /\ last.raised = None
       /\ ~session[last.s].logged_in

C4_Witness ==
    /\ last.op = "login"
    /\ \E i \in DOMAIN users : /\ users[i].username = last.username
                               /\ creds[i] # last.password
    /\ last.result = <<>>

\* the rows a user's successful runs should give, newest first
ExpectedHistory(username) ==
    LET mine == SelectSeq(okRuns, LAMBDA r : r.username = username)
        rows == Reverse(mine)
    IN  [i \in DOMAIN rows |-> Selected(rows[i])]

\* C5: for the user of every logged-in session, get_user_history returns
\* one row per successful pipeline run of that user, newest first, and
\* nothing else.
C5_HistoryIsOwnRuns ==
    \A s \in Sessions :
        session[s].logged_in =>
            LET h == get_user_history(history, session[s].username)
            IN  /\ h.raised = None
                /\ h.df = ExpectedHistory(session[s].username)

\* C6: when any artifact failed to load, every press of the process button
\* gets "Models failed to load." without process_document being called, and
\* the history table stays empty.
C6_ModelsUnavailable ==
    (\E a \in Artifacts : ~loaded[a])
    => /\ history = <<>>
       /\ okRuns = <<>>
       /\ last.op = "process" =>
             /\ ~last.ran
             /\ last.out.calls = <<>>
             /\ last.ui = "Models failed to load."
             /\ last.raised = None
             /\ ~last.saved

C6_Witness ==
    /\ last.op = "process"
    /\ ~loaded["summarizer"]
    /\ \A a \in Artifacts \ {"summarizer"} : loaded[a]
    /\ last.ui = "Models failed to load."

\* C7: no exception leaves a pipeline run: an OCR failure and an empty text
\* both come back from process_document as return values.
C7_NoExceptionEscapes ==
    PipelineRan => last.out.raised = None /\ last.raised = None

\* C8: registrations of one user name that interleave: at most one returns
\* True, the table never holds two rows for the name, a registration that
\* returned (True or False) leaves exactly one row, and when only that name
\* was registered and every call has ended there is exactly one row.
C8_OneRegistrationWins ==
    \A u \in PageUsernames :
        /\ Cardinality({i \in DOMAIN regLog :
               regLog[i].username = u /\ regLog[i].outcome = "True"}) <= 1
        /\ Cardinality(RowsOf(users, u)) <= 1
        /\ (\E i \in DOMAIN regLog :
               regLog[i].username = u
               /\ regLog[i].outcome \in {"True", "False"})
           => Cardinality(RowsOf(users, u)) = 1
        /\ (/\ regLog # <<>>
            /\ \A i \in DOMAIN regLog : regLog[i].username = u
            /\ \A s \in Sessions : conn[s].pc = "idle")
           => Cardinality(RowsOf(users, u)) = 1

C8_Witness ==
    /\ conn[1].pc = "committed"
    /\ conn[2].pc = "refused"
    /\ conn[1].username = conn[2].username
    /\ Cardinality(RowsOf(users, conn[1].username)) = 1

\* C9: in a pipeline run the calls are made in the order OCR, vectorizer,
\* classifier, label decoder, summarizer; the vectorizer and the classifier
\* get a text with a visible character; the summarizer is called only after
\* the label was decoded; a run that returns a category returns a label of
\* the encoder, a summary, and the whole OCR text.
C9_StagesInOrder ==
    PipelineRan =>
        LET calls == last.out.calls
        IN  /\ calls # <<>>
            /\ calls[1].stage = "ocr"
            /\ \A i, j \in DOMAIN calls :
                  i < j => StageRank(calls[i].stage) < StageRank(calls[j].stage)
            /\ \A i \in DOMAIN calls :
                  calls[i].stage \in {"vectorize", "predict"}
                  => HasVisibleChar(calls[i].arg)
            /\ \A i \in DOMAIN calls :
                  calls[i].stage = "summarize"
                  => /\ \E j \in 1..(i - 1) : calls[j].stage = "decode"
                     /\ last.out.category \in Range(Labels)
            /\ (last.out.raised = None /\ last.out.category # None)
               => /\ last.out.category \in Range(Labels)
                  /\ \E j \in DOMAIN calls : calls[j].stage = "decode"
                  /\ last.out.summary \in {TooShort, ModelSummary}
                  /\ last.out.raw_text = last.image.text

C9_Witness ==
    /\ PipelineRan
    /\ Len(last.out.calls) = 5
    /\ last.out.calls[5].stage = "summarize"
    /\ PyLen(last.out.raw_text) > TruncateAt

\* C10: a history row is written only by a process run of a logged-in
\* session, and carries the user name of that session's last accepted
\* login, which has a row in the users table; every history row's user name
\* has a row in the users table.
C10_WriteStep ==
    history' # history =>
        /\ last'.op = "process"
        /\ session[last'.s].logged_in
        /\ authed[last'.s] # <<>>
        /\ history' = Append(history, Last(history'))
        /\ Last(history').username = authed[last'.s]
        /\ Registered(users, Last(history').username)

C10_RecordsOwned ==
    /\ [](\A i \in DOMAIN history : Registered(users, history[i].username))
    /\ [][C10_WriteStep]_vars

C10_Witness ==
    /\ last.op = "process"
    /\ last.saved
    /\ Len(history) = 2
    /\ history[1].username # history[2].username
    /\ Last(history).username = authed[last.s]

====
